---- MODULE Spec2Model ----
(***************************************************************************)
(* Model of the bulk result-downloader of duckduckgo_search/cli.py:        *)
(* _sanitize_keywords, _download_file and _download_results, the latter    *)
(* running on a concurrent.futures.ThreadPoolExecutor.                     *)
(*                                                                         *)
(* Strings are sequences of one-character strings, so that splitting,      *)
(* replacing, percent-decoding and slicing are computed as Python does.    *)
(***************************************************************************)
EXTENDS Integers, Sequences, FiniteSets, TLC

VARIABLES
    results,      \* the list of result records handed to _download_results
    images,       \* the images argument
    threads,      \* the threads argument: None or <<n>> with n >= 1
    pc,           \* position of the calling thread in _download_results
    dirCreated,   \* os.makedirs(path, exist_ok=True) has run
    next_i,       \* the index enumerate(results, start=1) is at
    futures,      \* the futures list: one [url, filename] job per submit
    queue,        \* executor work queue: indexes into futures, FIFO
    numThreads,   \* worker threads the executor has spawned
    idleSem,      \* executor._idle_semaphore
    running,      \* jobs a worker is inside _download_file for
    started,      \* started[j]: times _download_file was entered for job j
    finished,     \* finished[j]: times _download_file returned/raised for j
    outcome,      \* outcome[j]: how the fetch of job j ended
    futureExc,    \* jobs whose future holds an exception
    files,        \* the destination directory: set of [name, body, part]
    logged,       \* number of logger.debug calls made by _download_file
    yielded,      \* futures as_completed has already yielded
    barCreated,   \* click.progressbar(...) has been constructed and entered
    barLength,    \* its length argument
    ticks,        \* sum of bar.update(1) calls
    nUrl,         \* naming specification: the url under test
    nOrd,         \* naming specification: the ordinal under test
    nName,        \* naming specification: {} before, {destination name} after
    kIn,          \* keyword specification: the keywords under test
    kOut          \* keyword specification: {} before, {sanitized keywords} after

batchVars == <<results, images, threads, pc, dirCreated, next_i, futures,
               queue, numThreads, idleSem, running, started, finished,
               outcome, futureExc, files, logged, yielded, barCreated,
               barLength, ticks>>
nameVars == <<nUrl, nOrd, nName>>
kwVars == <<kIn, kOut>>
vars == <<batchVars, nameVars, kwVars>>

\* the threads argument is <<>> for None and <<n>> for the integer n
None == <<>>
NoValue == "NoValue"

\* ---------------------------------------------------------------------
\* Bounds of the model
\* ---------------------------------------------------------------------
MaxResults == 2       \* longest result list
MaxThreads == 2       \* largest explicit threads argument
MaxUrlLen == 4        \* longest enumerated url of the naming specification
MaxTokens == 3        \* most tokens concatenated into a keywords string

\* ---------------------------------------------------------------------
\* Program constants
\* ---------------------------------------------------------------------
DefaultThreads == 10
NameLimit == 200

\* ---------------------------------------------------------------------
\* Python string primitives
\* ---------------------------------------------------------------------

\* s[a:] for 0 <= a
Drop(s, a) == IF a >= Len(s) THEN <<>> ELSE SubSeq(s, a + 1, Len(s))

\* s[:n] for 0 <= n
Take(s, n) == IF n >= Len(s) THEN s ELSE SubSeq(s, 1, n)

\* s.startswith(p)
StartsWith(s, p) == Len(p) <= Len(s) /\ SubSeq(s, 1, Len(p)) = p

\* p in s
Contains(s, p) == \E k \in 0..(Len(s) - Len(p)) : SubSeq(s, k + 1, k + Len(p)) = p

\* s.replace(old, new) for a non-empty old: leftmost non-overlapping matches
RECURSIVE Replace(_, _, _)
Replace(s, old, new) ==
    IF Len(s) < Len(old) THEN s
    ELSE IF StartsWith(s, old) THEN new \o Replace(Drop(s, Len(old)), old, new)
    ELSE <<s[1]>> \o Replace(Drop(s, 1), old, new)

\* s.split(c)[-1]: the text after the last c, all of s when c is absent
RECURSIVE SplitLast(_, _)
SplitLast(s, c) ==
    IF \E k \in 1..Len(s) : s[k] = c
    THEN SplitLast(Drop(s, (CHOOSE k \in 1..Len(s) : s[k] = c /\ \A m \in 1..(k - 1) : s[m] # c)), c)
    ELSE s

\* s.split(c)[0]: the text before the first c, all of s when c is absent
SplitFirst(s, c) ==
    IF \E k \in 1..Len(s) : s[k] = c
    THEN Take(s, (CHOOSE k \in 1..Len(s) : s[k] = c /\ \A m \in 1..(k - 1) : s[m] # c) - 1)
    ELSE s

\* str(n) for n >= 0
DigitChar(d) == <<"0", "1", "2", "3", "4", "5", "6", "7", "8", "9">>[d + 1]

RECURSIVE Str(_)
Str(n) == IF n < 10 THEN <<DigitChar(n)>> ELSE Str(n \div 10) \o <<DigitChar(n % 10)>>

\* urllib.parse.unquote: "%" followed by two hex digits becomes the character
\* with that code; any other "%" is kept.  The characters the model's urls
\* can spell are listed; every other code decodes to OtherChar.
HexDigits == {"0", "1", "2", "3", "4", "5", "6", "7", "8", "9",
              "a", "b", "c", "d", "e", "f", "A", "B", "C", "D", "E", "F"}

OtherChar == "~"

HexChar(h1, h2) ==
    CASE h1 = "2" /\ h2 = "0" -> " "
      [] h1 = "2" /\ h2 = "2" -> "\""
      [] h1 = "2" /\ h2 = "5" -> "%"
      [] h1 = "2" /\ h2 \in {"F", "f"} -> "/"
      [] h1 = "3" /\ h2 \in {"F", "f"} -> "?"
      [] h1 = "3" /\ h2 = "2" -> "2"
      [] h1 = "3" /\ h2 = "3" -> "3"
      [] h1 = "5" /\ h2 = "F" -> "_"
      [] OTHER -> OtherChar

\* the concatenation of a sequence of strings, by halves
RECURSIVE Flatten(_)
Flatten(ts) ==
    IF ts = <<>> THEN <<>>
    ELSE IF Len(ts) = 1 THEN ts[1]
    ELSE LET h == Len(ts) \div 2
         IN  Flatten(SubSeq(ts, 1, h)) \o Flatten(SubSeq(ts, h + 1, Len(ts)))

\* position k of s starts an escape: "%" and two hex digits
IsEscape(s, k) ==
    /\ k >= 1
    /\ k + 2 <= Len(s)
    /\ s[k] = "%"
    /\ s[k + 1] \in HexDigits
    /\ s[k + 2] \in HexDigits

\* An escape is replaced by its character, its two digits are consumed, and
\* every other character is kept (a hex digit is never "%", so escapes do
\* not overlap).
unquote(s) ==
    Flatten([k \in 1..Len(s) |->
               IF IsEscape(s, k) THEN <<HexChar(s[k + 1], s[k + 2])>>
               ELSE IF IsEscape(s, k - 1) \/ IsEscape(s, k - 2) THEN <<>>
               ELSE <<s[k]>>])

\* ---------------------------------------------------------------------
\* _sanitize_keywords (cli.py 70-81)
\* ---------------------------------------------------------------------
FILETYPE == <<"f", "i", "l", "e", "t", "y", "p", "e">>
SITE == <<"s", "i", "t", "e">>

_sanitize_keywords_noslash(keywords) ==
    Replace(
     Replace(
      Replace(
       Replace(
        Replace(
         Replace(
          Replace(keywords, FILETYPE, <<>>),
          <<":">>, <<>>),
         <<"\"">>, <<"'">>),
        SITE, <<>>),
       <<" ">>, <<"_">>),
      <<"\\">>, <<"_">>),
     <<" ">>, <<>>)

_sanitize_keywords(keywords) ==
    Replace(
     Replace(
      Replace(
       Replace(
        Replace(
         Replace(
          Replace(
           Replace(keywords, FILETYPE, <<>>),
           <<":">>, <<>>),
          <<"\"">>, <<"'">>),
         SITE, <<>>),
        <<" ">>, <<"_">>),
       <<"/">>, <<"_">>),
      <<"\\">>, <<"_">>),
     <<" ">>, <<>>)

\* ---------------------------------------------------------------------
\* Per-item file name (cli.py 104, 105, 88)
\* ---------------------------------------------------------------------

\* line 104: unquote(url.split("/")[-1].split("?")[0])
TerminalName(url) == unquote(SplitFirst(SplitLast(url, "/"), "?"))

\* the ordinal put behind the segment: f"{filename}_{i}"
JobFileNameOrdinalLast(i, url) == TerminalName(url) \o <<"_">> \o Str(i)

\* line 105: f"{i}_{filename}"
JobFileName(i, url) == Str(i) \o <<"_">> \o TerminalName(url)

\* line 88: filename[:200]
DestName(filename) == Take(filename, NameLimit)

\* ---------------------------------------------------------------------
\* Inputs of a batch
\* ---------------------------------------------------------------------
UrlA == <<"h", "/", "a">>
UrlAQuery == <<"h", "/", "a", "?", "b">>
EmptyUrl == <<>>

\* a url whose terminal segment is longer than NameLimit
LongUrl == <<"h", "/">> \o [k \in 1..(NameLimit + 5) |-> "a"]

\* Result records as the search client returns them: both modes' url
\* fields are strings, possibly empty.
BatchRecords ==
    { [href |-> UrlA, image |-> UrlAQuery],
      [href |-> EmptyUrl, image |-> UrlA],
      [href |-> UrlAQuery, image |-> EmptyUrl] }

ResultLists == UNION { [1..n -> BatchRecords] : n \in 0..MaxResults }

ThreadArgs == {None} \cup { <<n>> : n \in 1..MaxThreads }

\* line 103: res["image"] if images else res["href"]
UrlOf(res, img) == IF img THEN res.image ELSE res.href

\* line 99: threads = 10 if threads is None else threads
PoolSizeIgnoresArg(t) == DefaultThreads

PoolSize(t) == IF t = None THEN DefaultThreads ELSE t[1]

\* ---------------------------------------------------------------------
\* _download_file (cli.py 84-91)
\* ---------------------------------------------------------------------

\* What the network and the filesystem can do to one fetch:
\*   ok        resp.status_code == 200, open() and write() succeed
\*   non200    a response with another status
\*   reqerr    Client(...).get(url) raises
\*   openerr   status 200, open() raises
\*   writeerr  status 200, open() has created the file, write() raises
\* A request for the empty url cannot be sent: it raises.
Outcomes == {"ok", "non200", "reqerr", "openerr", "writeerr"}

PossibleOutcomes(url) == IF url = EmptyUrl THEN {"reqerr"} ELSE Outcomes

\* open(path, "wb") creates or truncates the file at name
Opened(fs, name) == {f \in fs : f.name # name} \cup {[name |-> name, body |-> EmptyUrl, complete |-> FALSE]}

\* file.write(resp.content) and close: the body of the url is in the file
Written(fs, name, url) == {f \in fs : f.name # name} \cup {[name |-> name, body |-> url, complete |-> TRUE]}

\* lines 86-89, the body of the try block: the directory afterwards and
\* whether an exception left the block
TryBlock(url, filename, o, fs) ==
    CASE o = "reqerr" -> [files |-> fs, exc |-> TRUE]
      [] o = "non200" -> [files |-> fs, exc |-> FALSE]
      [] o = "openerr" -> [files |-> fs, exc |-> TRUE]
      [] o = "writeerr" -> [files |-> Opened(fs, DestName(filename)), exc |-> TRUE]
      [] o = "ok" -> [files |-> Written(fs, DestName(filename), url), exc |-> FALSE]

\* the except clause logs and raises again
DownloadFileReraise(url, filename, o, fs, lg) ==
    LET b == TryBlock(url, filename, o, fs)
    IN  [files |-> b.files, logged |-> IF b.exc THEN lg + 1 ELSE lg, raised |-> b.exc]

\* no try/except at all
DownloadFileNoTry(url, filename, o, fs, lg) ==
    LET b == TryBlock(url, filename, o, fs)
    IN  [files |-> b.files, logged |-> lg, raised |-> b.exc]

\* lines 85-91: except Exception logs at debug level and swallows
DownloadFile(url, filename, o, fs, lg) ==
    LET b == TryBlock(url, filename, o, fs)
    IN  [files |-> b.files, logged |-> IF b.exc THEN lg + 1 ELSE lg, raised |-> FALSE]

\* ---------------------------------------------------------------------
\* Initial states
\* ---------------------------------------------------------------------
BatchIdle ==
    /\ pc = "start"
    /\ dirCreated = FALSE
    /\ next_i = 1
    /\ futures = <<>>
    /\ queue = <<>>
    /\ numThreads = 0
    /\ idleSem = 0
    /\ running = {}
    /\ started = [j \in 1..Len(results) |-> 0]
    /\ finished = [j \in 1..Len(results) |-> 0]
    /\ outcome = [j \in 1..Len(results) |-> NoValue]
    /\ futureExc = {}
    /\ files = {}
    /\ logged = 0
    /\ yielded = {}
    /\ barCreated = FALSE
    /\ barLength = 0
    /\ ticks = 0

NameIdle == nUrl = <<>> /\ nOrd = 1 /\ nName = {}

KwIdle == kIn = <<>> /\ kOut = {}

Init ==
    /\ results \in ResultLists
    /\ images \in BOOLEAN
    /\ threads \in ThreadArgs
    /\ BatchIdle
    /\ NameIdle
    /\ KwIdle

\* ---------------------------------------------------------------------
\* _download_results (cli.py 94-113): the calling thread
\* ---------------------------------------------------------------------

\* lines 95-100: make the directory, create the executor
Start ==
    /\ pc = "start"
    /\ dirCreated' = TRUE
    /\ pc' = "submit"
    /\ UNCHANGED <<results, images, threads, next_i, futures, queue, numThreads,
                   idleSem, running, started, finished, outcome, futureExc,
                   files, logged, yielded, barCreated, barLength, ticks>>
    /\ UNCHANGED <<nameVars, kwVars>>

\* executor.submit: enqueue the work item, then _adjust_thread_count:
\* take an idle worker's token if there is one, else spawn a worker while
\* fewer than max_workers exist
Enqueue(j) ==
    /\ queue' = Append(queue, j)
    /\ IF idleSem > 0
       THEN idleSem' = idleSem - 1 /\ numThreads' = numThreads
       ELSE /\ idleSem' = idleSem
            /\ numThreads' = IF numThreads < PoolSize(threads) THEN numThreads + 1 ELSE numThreads

\* a loop body that leaves out records whose url is empty
SubmitSkipsEmpty ==
    /\ pc = "submit"
    /\ next_i <= Len(results)
    /\ LET url == UrlOf(results[next_i], images)
       IN  IF url = EmptyUrl
           THEN UNCHANGED <<futures, queue, idleSem, numThreads>>
           ELSE /\ futures' = Append(futures, [url |-> url, filename |-> JobFileName(next_i, url)])
                /\ Enqueue(Len(futures) + 1)
    /\ next_i' = next_i + 1
    /\ UNCHANGED <<results, images, threads, pc, dirCreated, running, started,
                   finished, outcome, futureExc, files, logged, yielded,
                   barCreated, barLength, ticks>>
    /\ UNCHANGED <<nameVars, kwVars>>

\* lines 102-106: one iteration of the submit loop
Submit ==
    /\ pc = "submit"
    /\ next_i <= Len(results)
    /\ LET url == UrlOf(results[next_i], images)
       IN  /\ futures' = Append(futures, [url |-> url, filename |-> JobFileName(next_i, url)])
           /\ Enqueue(Len(futures) + 1)
    /\ next_i' = next_i + 1
    /\ UNCHANGED <<results, images, threads, pc, dirCreated, running, started,
                   finished, outcome, futureExc, files, logged, yielded,
                   barCreated, barLength, ticks>>
    /\ UNCHANGED <<nameVars, kwVars>>

\* a progress bar that is only made when there is something to download
OpenBarUnlessEmpty ==
    /\ pc = "submit"
    /\ next_i > Len(results)
    /\ barCreated' = (futures # <<>>)
    /\ barLength' = Len(futures)
    /\ pc' = "drain"
    /\ UNCHANGED <<results, images, threads, dirCreated, next_i, futures, queue,
                   numThreads, idleSem, running, started, finished, outcome,
                   futureExc, files, logged, yielded, ticks>>
    /\ UNCHANGED <<nameVars, kwVars>>

\* lines 108-110: the submit loop is over, enter click.progressbar
OpenBar ==
    /\ pc = "submit"
    /\ next_i > Len(results)
    /\ barCreated' = TRUE
    /\ barLength' = Len(futures)
    /\ pc' = "drain"
    /\ UNCHANGED <<results, images, threads, dirCreated, next_i, futures, queue,
                   numThreads, idleSem, running, started, finished, outcome,
                   futureExc, files, logged, yielded, ticks>>
    /\ UNCHANGED <<nameVars, kwVars>>

\* bar.update(1) placed under a success test
TickOnlyOk(j) ==
    /\ pc = "drain"
    /\ j \in DOMAIN futures
    /\ j \notin yielded
    /\ finished[j] > 0
    /\ yielded' = yielded \cup {j}
    /\ IF j \in futureExc
       THEN pc' = "raised" /\ ticks' = ticks
       ELSE pc' = pc /\ ticks' = IF outcome[j] = "ok" THEN ticks + 1 ELSE ticks
    /\ UNCHANGED <<results, images, threads, dirCreated, next_i, futures, queue,
                   numThreads, idleSem, running, started, finished, outcome,
                   futureExc, files, logged, barCreated, barLength>>
    /\ UNCHANGED <<nameVars, kwVars>>

\* lines 111-113: as_completed yields a finished future not yielded before;
\* future.result() raises what the job raised, else bar.update(1)
Tick(j) ==
    /\ pc = "drain"
    /\ j \in DOMAIN futures
    /\ j \notin yielded
    /\ finished[j] > 0
    /\ yielded' = yielded \cup {j}
    /\ IF j \in futureExc
       THEN pc' = "raised" /\ ticks' = ticks
       ELSE pc' = pc /\ ticks' = ticks + 1
    /\ UNCHANGED <<results, images, threads, dirCreated, next_i, futures, queue,
                   numThreads, idleSem, running, started, finished, outcome,
                   futureExc, files, logged, barCreated, barLength>>
    /\ UNCHANGED <<nameVars, kwVars>>

\* a loop that is left after the first completion
ReturnAfterFirst ==
    /\ pc = "drain"
    /\ (yielded # {} \/ futures = <<>>)
    /\ pc' = "done"
    /\ UNCHANGED <<results, images, threads, dirCreated, next_i, futures, queue,
                   numThreads, idleSem, running, started, finished, outcome,
                   futureExc, files, logged, yielded, barCreated, barLength, ticks>>
    /\ UNCHANGED <<nameVars, kwVars>>

\* lines 111-113 and the two with-exits: as_completed is exhausted once every
\* future was yielded; the bar and the executor are closed and the call returns
Return ==
    /\ pc = "drain"
    /\ yielded = DOMAIN futures
    /\ pc' = "done"
    /\ UNCHANGED <<results, images, threads, dirCreated, next_i, futures, queue,
                   numThreads, idleSem, running, started, finished, outcome,
                   futureExc, files, logged, yielded, barCreated, barLength, ticks>>
    /\ UNCHANGED <<nameVars, kwVars>>

\* ---------------------------------------------------------------------
\* The executor's worker threads
\* ---------------------------------------------------------------------

\* a worker that is not running a job takes the oldest work item and enters
\* _download_file
WorkerStart ==
    /\ queue # <<>>
    /\ Cardinality(running) < numThreads
    /\ LET j == Head(queue)
       IN  /\ running' = running \cup {j}
           /\ started' = [started EXCEPT ![j] = @ + 1]
    /\ queue' = Tail(queue)
    /\ UNCHANGED <<results, images, threads, pc, dirCreated, next_i, futures,
                   numThreads, idleSem, finished, outcome, futureExc, files,
                   logged, yielded, barCreated, barLength, ticks>>
    /\ UNCHANGED <<nameVars, kwVars>>

\* _download_file runs to its end for job j with outcome o; the future is
\* resolved and the worker releases the idle semaphore
WorkerFinish(j, o) ==
    /\ j \in running
    /\ o \in PossibleOutcomes(futures[j].url)
    /\ LET r == DownloadFile(futures[j].url, futures[j].filename, o, files, logged)
       IN  /\ files' = r.files
           /\ logged' = r.logged
           /\ futureExc' = IF r.raised THEN futureExc \cup {j} ELSE futureExc
    /\ running' = running \ {j}
    /\ finished' = [finished EXCEPT ![j] = @ + 1]
    /\ outcome' = [outcome EXCEPT ![j] = o]
    /\ idleSem' = idleSem + 1
    /\ UNCHANGED <<results, images, threads, pc, dirCreated, next_i, futures,
                   queue, numThreads, started, yielded, barCreated, barLength, ticks>>
    /\ UNCHANGED <<nameVars, kwVars>>

MainStep == Start \/ Submit \/ OpenBar \/ (\E j \in 1..MaxResults + 1 : Tick(j)) \/ Return

WorkerStep == WorkerStart \/ (\E j \in running, o \in Outcomes : WorkerFinish(j, o))

Next == MainStep \/ WorkerStep

Spec == Init /\ [][Next]_vars

\* The same batch over lists that also hold a record whose url is longer
\* than the name limit.
LongRecords == BatchRecords \cup { [href |-> LongUrl, image |-> LongUrl] }

LongResultLists == UNION { [1..n -> LongRecords] : n \in 0..MaxResults }

InitLong ==
    /\ results \in LongResultLists
    /\ images \in BOOLEAN
    /\ threads \in ThreadArgs
    /\ BatchIdle
    /\ NameIdle
    /\ KwIdle

SpecLong == InitLong /\ [][Next]_vars

\* the scheduler runs every thread that can take a step, and every fetch ends
FairSpec == Spec /\ WF_vars(MainStep) /\ WF_vars(WorkerStep)

\* ---------------------------------------------------------------------
\* Naming specification: the file name of one (ordinal, url)
\* ---------------------------------------------------------------------
NameAlphabet == {"a", "/", "?", "%", "2", "F"}

\* "https://x.test/a%20b.jpg?x=1"
ExampleUrl ==
    <<"h", "t", "t", "p", "s", ":", "/", "/", "x", ".", "t", "e", "s", "t",
      "/", "a", "%", "2", "0", "b", ".", "j", "p", "g", "?", "x", "=", "1">>

\* "1_a b.jpg"
ExampleName ==
    <<"1", "_", "a", " ", "b", ".", "j", "p", "g">>

NameUrls ==
    UNION { [1..n -> NameAlphabet] : n \in 0..MaxUrlLen } \cup {ExampleUrl, LongUrl}

NameOrdinals == {1, 12}

InitName ==
    /\ results = <<>>
    /\ images = FALSE
    /\ threads = None
    /\ BatchIdle
    /\ nUrl \in NameUrls
    /\ nOrd \in NameOrdinals
    /\ nName = {}
    /\ KwIdle

\* lines 104, 105 and 88 applied to one record
ComputeName ==
    /\ nName = {}
    /\ nName' = {DestName(JobFileName(nOrd, nUrl))}
    /\ UNCHANGED <<nUrl, nOrd, batchVars, kwVars>>

NextName == ComputeName

SpecName == InitName /\ [][NextName]_vars

\* ---------------------------------------------------------------------
\* Keyword specification: _sanitize_keywords of one string
\* ---------------------------------------------------------------------
KwTokens ==
    { FILETYPE, SITE, <<"s", "i">>, <<"t", "e">>, <<"f", "i", "l", "e">>,
      <<"t", "y", "p", "e">>, <<":">>, <<"\"">>, <<"/">>, <<"\\">>, <<" ">>, <<"a">> }

\* 'filetype:pdf "report" site:example.com'
ExampleKeywords ==
    <<"f", "i", "l", "e", "t", "y", "p", "e", ":", "p", "d", "f", " ",
      "\"", "r", "e", "p", "o", "r", "t", "\"", " ", "s", "i", "t", "e",
      ":", "e", "x", "a", "m", "p", "l", "e", ".", "c", "o", "m">>

\* pdf_'report'_example.com
ExampleSanitized ==
    <<"p", "d", "f", "_", "'", "r", "e", "p", "o", "r", "t", "'", "_", "e",
      "x", "a", "m", "p", "l", "e", ".", "c", "o", "m">>

KwInputs ==
    { Flatten(ts) : ts \in UNION { [1..n -> KwTokens] : n \in 0..MaxTokens } }
        \cup {ExampleKeywords}

InitKw ==
    /\ results = <<>>
    /\ images = FALSE
    /\ threads = None
    /\ BatchIdle
    /\ NameIdle
    /\ kIn \in KwInputs
    /\ kOut = {}

\* lines 205, 309: keywords = _sanitize_keywords(keywords)
Sanitize ==
    /\ kOut = {}
    /\ kOut' = {_sanitize_keywords(kIn)}
    /\ UNCHANGED <<kIn, batchVars, nameVars>>

NextKw == Sanitize

SpecKw == InitKw /\ [][NextKw]_vars

\* ---------------------------------------------------------------------
\* Properties
\* ---------------------------------------------------------------------
FailureOutcomes == Outcomes \ {"ok"}

\* the threads argument as the caller means it: 10 when it is None
RequestedPool == IF threads = None THEN 10 ELSE threads[1]

\* the file a successful job j leaves behind
FileOf(j) ==
    [name |-> DestName(futures[j].filename), body |-> futures[j].url, complete |-> TRUE]

\* C1: when _download_results returns from a non-empty list of L records,
\* exactly L fetch attempts were made: every job was started once and
\* finished once, and none is still running.
C1_ExactlyOnce ==
    (pc = "done" /\ results # <<>>) =>
        /\ Len(futures) = Len(results)
        /\ running = {}
        /\ queue = <<>>
        /\ \A j \in 1..Len(results) : started[j] = 1 /\ finished[j] = 1

C1_Witness ==
    /\ pc = "done"
    /\ Len(results) >= 2
    /\ threads = <<1>>
    /\ \A j \in 1..Len(results) : finished[j] = 1

\* C2: the number of fetches started and not yet finished never exceeds the
\* pool size the caller asked for.
C2_InFlightBound == Cardinality(running) <= RequestedPool

C2_Witness ==
    /\ threads = <<1>>
    /\ Cardinality(running) = 1
    /\ queue # <<>>

\* C3: the tick count never exceeds the number of completed jobs, never
\* decreases, and is exactly the number of jobs when the batch has returned,
\* whichever jobs failed.
C3_Ticks ==
    /\ [](/\ ticks <= Cardinality({j \in DOMAIN finished : finished[j] > 0})
          /\ (pc = "done" => ticks = Len(results) /\ ticks = barLength))
    /\ [][ticks' >= ticks]_vars

C3_Witness ==
    /\ pc = "done"
    /\ ticks = 2
    /\ \E j \in DOMAIN outcome : outcome[j] \in FailureOutcomes

\* C4: a failing job never raises to the dispatcher; the batch never ends by
\* an exception, and when it has returned every job was attempted, every
\* successful job's file is in the directory and the tick count is the
\* number of records.
C4_Isolation ==
    /\ futureExc = {}
    /\ pc # "raised"
    /\ pc = "done" =>
         /\ \A k \in DOMAIN futures :
               /\ finished[k] = 1
               /\ outcome[k] = "ok" => FileOf(k) \in files
         /\ ticks = Len(results)

C4_Witness ==
    /\ pc = "done"
    /\ \E j, k \in DOMAIN outcome :
          outcome[j] \in FailureOutcomes /\ outcome[k] = "ok" /\ FileOf(k) \in files

\* C5: under fair scheduling every batch ends up returned with the progress
\* display at its full length, and stays there.
C5_Completes == <>[](pc = "done" /\ barCreated /\ ticks = barLength)

C5_Witness ==
    /\ pc = "done"
    /\ Len(results) >= 2
    /\ ticks = barLength
    /\ \A j \in DOMAIN outcome : outcome[j] \in FailureOutcomes

\* the url of every record, in order
RecordUrls == [k \in DOMAIN results |-> UrlOf(results[k], images)]

\* the url of every job handed to the pool, in order
JobUrls == [j \in DOMAIN futures |-> futures[j].url]

NonEmptyUrl(u) == u # EmptyUrl

C7_Original ==
    (results = <<>> /\ pc = "done") => (files = {} /\ ticks = 0 /\ ~barCreated)

\* C7: a batch of no records submits nothing, starts no worker, writes no
\* file and ticks never; it has made a progress display of length 0 when it
\* returns.
C7_EmptyBatch ==
    results = <<>> =>
        /\ futures = <<>>
        /\ numThreads = 0
        /\ running = {}
        /\ files = {}
        /\ ticks = 0
        /\ pc = "done" => (barCreated /\ barLength = 0 /\ dirCreated)

C7_Witness == results = <<>> /\ pc = "done" /\ barCreated

\* C8: a fetch that ends in any failure leaves the directory as it was, and
\* a successful one leaves the file with the full body.
C8_NoPartialFile ==
    [][\A j \in running :
          finished'[j] = finished[j] + 1 =>
             IF outcome'[j] = "ok"
             THEN FileOf(j) \in files'
             ELSE files' = files]_vars

\* the reference file_name of the specification: decode first, then split
RefFileName(ordinal, url) ==
    Take(Str(ordinal) \o <<"_">> \o SplitFirst(SplitLast(unquote(url), "/"), "?"), NameLimit)

\* C9: the name used for a record is the reference file_name and contains no
\* "/"; the example url gives "1_a b.jpg".
C9_MatchesReference ==
    \A n \in nName :
        /\ n = RefFileName(nOrd, nUrl)
        /\ ~Contains(n, <<"/">>)
        /\ (nUrl = ExampleUrl /\ nOrd = 1) => n = ExampleName

\* C10 as stated: the result contains none of the two markers and none of
\* the five characters.
C10_Original ==
    \A r \in kOut :
        /\ ~Contains(r, FILETYPE)
        /\ ~Contains(r, SITE)
        /\ \A c \in {":", "\"", "/", "\\", " "} : ~Contains(r, <<c>>)
        /\ kIn = ExampleKeywords => r = ExampleSanitized

\* C10: the result contains none of ":", the double quote, "/", "\" and the
\* space, is never longer than the input, and the example gives
\* pdf_'report'_example.com.
C10_CharsRemoved ==
    \A r \in kOut :
        /\ \A c \in {":", "\"", "/", "\\", " "} : ~Contains(r, <<c>>)
        /\ Len(r) <= Len(kIn)
        /\ kIn = ExampleKeywords => r = ExampleSanitized

C10_Witness ==
    /\ kOut # {}
    /\ Contains(kIn, <<"/">>)
    /\ Contains(kIn, SITE)
    /\ \E r \in kOut : Contains(r, <<"_">>) /\ ~Contains(r, SITE)

\* the destination name of job j
DestOf(j) == DestName(futures[j].filename)

\* jobs whose fetch got as far as open(): they created or replaced a file
Writers == {j \in DOMAIN futures : outcome[j] \in {"ok", "writeerr"}}

\* C11: any two jobs of a batch have different destination names, also when
\* their urls are equal or the names are cut at the limit; each name begins
\* with the job's ordinal and "_", and no job's file is ever replaced by
\* another job's: every job that opened its file still has it.
C11_DistinctNames ==
    /\ \A j, k \in DOMAIN futures : j # k => DestOf(j) # DestOf(k)
    /\ \A j \in DOMAIN futures : StartsWith(DestOf(j), Str(j) \o <<"_">>)
    /\ \A j \in Writers : \E f \in files : f.name = DestOf(j) /\ f.body \in {futures[j].url, EmptyUrl}
    /\ Cardinality(files) = Cardinality(Writers)

C11_Witness ==
    /\ pc = "done"
    /\ \E j, k \in DOMAIN futures :
          /\ j # k
          /\ futures[j].url = futures[k].url
          /\ Len(futures[j].filename) > NameLimit
          /\ outcome[j] = "ok"
          /\ outcome[k] = "ok"
          /\ FileOf(j) \in files
          /\ FileOf(k) \in files

====
